---- MODULE Spec2Model ----
(***************************************************************************)
(* State-machine model of the RAG chat demo: the FastAPI backend           *)
(* (src/backend/main.py) and the Streamlit frontend (src/frontend/app.py). *)
(*                                                                         *)
(* A Python str is modelled as a sequence of tokens.  A token is either a  *)
(* whitespace character (" " or "\n") or a fragment of text that contains  *)
(* no whitespace character that matters to the model; the fixed pieces of  *)
(* the prompt template and the fixed error prefixes are single tokens.     *)
(* The external services (knowledge-base retrieval, model inference, the   *)
(* network between frontend and backend) answer nondeterministically.      *)
(***************************************************************************)
EXTENDS Naturals, Sequences, FiniteSets, TLC

\* ------------------------------------------------------------------------
\* Bounds of the model
\* ------------------------------------------------------------------------
MaxBlocks == 2      \* content blocks in a model response
MaxDirectLen == 2   \* messages in a request posted by an arbitrary client
MaxTurns == 2       \* chat turns of one frontend session
MaxLen == 4         \* tokens of an answer handed to stream_generator alone

\* ------------------------------------------------------------------------
\* Program constants
\* ------------------------------------------------------------------------
top_k == 3          \* retrieve_from_kb(query, top_k=3): numberOfResults

\* ------------------------------------------------------------------------
\* Strings
\* ------------------------------------------------------------------------
Whitespace == {" ", "\n"}

\* sep.join(parts), parts a sequence of strings
RECURSIVE Join(_, _)
Join(sep, parts) ==
    IF parts = <<>> THEN <<>>
    ELSE IF Len(parts) = 1 THEN parts[1]
    ELSE parts[1] \o sep \o Join(sep, Tail(parts))

\* the concatenation of a sequence of strings
RECURSIVE Concat(_)
Concat(parts) == IF parts = <<>> THEN <<>> ELSE parts[1] \o Concat(Tail(parts))

\* s occurs in t as a contiguous substring
Contains(t, s) ==
    \E i \in 0..Len(t) :
        /\ i + Len(s) <= Len(t)
        /\ \A j \in 1..Len(s) : t[i + j] = s[j]

\* str.split() without arguments: runs of whitespace separate the words,
\* leading and trailing whitespace is dropped, no empty word is produced.
\* cur is the word being scanned, acc the words found so far.
RECURSIVE SplitFrom(_, _, _)
SplitFrom(s, cur, acc) ==
    IF s = <<>> THEN (IF cur = <<>> THEN acc ELSE Append(acc, cur))
    ELSE IF Head(s) \in Whitespace
         THEN SplitFrom(Tail(s), <<>>, IF cur = <<>> THEN acc ELSE Append(acc, cur))
         ELSE SplitFrom(Tail(s), Append(cur, Head(s)), acc)

SplitOnSingleSpace(s) ==
    \* str.split(" "): every single space separates, empty words are kept
    LET RECURSIVE F(_, _, _)
        F(r, cur, acc) ==
            IF r = <<>> THEN Append(acc, cur)
            ELSE IF Head(r) = " " THEN F(Tail(r), <<>>, Append(acc, cur))
            ELSE F(Tail(r), Append(cur, Head(r)), acc)
    IN F(s, <<>>, <<>>)

Split(s) == SplitFrom(s, <<>>, <<>>)

\* ------------------------------------------------------------------------
\* Messages (pydantic Message / ChatRequest)
\* ------------------------------------------------------------------------
Roles == {"user", "assistant"}
Msg(r, c) == [role |-> r, content |-> c]

\* all sequences over S of length at most n
SeqUpTo(S, n) == UNION {[1..k -> S] : k \in 0..n}

\* ------------------------------------------------------------------------
\* Values exchanged with the external services
\* ------------------------------------------------------------------------
\* One retrieval result: doc may lack "content", or its content may lack "text".
DocTexts == {<<"x">>}
NoContentDoc == [hasContent |-> FALSE, hasText |-> FALSE, text |-> <<>>]
NoTextDoc == [hasContent |-> TRUE, hasText |-> FALSE, text |-> <<>>]
TextDoc(t) == [hasContent |-> TRUE, hasText |-> TRUE, text |-> t]
Docs == {NoContentDoc, NoTextDoc} \cup {TextDoc(t) : t \in DocTexts}
\* response.get("retrievalResults", []): at most numberOfResults results
CandidateLists == SeqUpTo(Docs, top_k)

\* Texts a content block of the model can carry
AnswerTexts == { <<"a">>, <<" ", "a", " ", "\n", "b", " ">> }
NoTextBlock == [hasText |-> FALSE, text |-> <<>>]
TextBlock(t) == [hasText |-> TRUE, text |-> t]
Blocks == {NoTextBlock} \cup {TextBlock(t) : t \in AnswerTexts}
\* The decoded body of invoke_model: "content" missing, or a list of blocks
ModelResponses ==
    {[hasContent |-> FALSE, content |-> <<>>]}
    \cup {[hasContent |-> TRUE, content |-> c] : c \in SeqUpTo(Blocks, MaxBlocks)}

\* str(e) of the exceptions that can reach the handlers
IndexErrorText == <<"list index out of range">>
KbErrorText == <<"retrieve failed">>
LlmErrorText == <<"invoke_model failed">>

\* ------------------------------------------------------------------------
\* Backend helpers (src/backend/main.py)
\* ------------------------------------------------------------------------
NoResponseFromModel == <<"No", " ", "response", " ", "from", " ", "model.">>

FirstBlockText(result_json) ==
    IF result_json.hasContent /\ result_json.content # <<>>
    THEN (IF result_json.content[1].hasText THEN result_json.content[1].text ELSE <<>>)
    ELSE NoResponseFromModel

LastBlockText(result_json) ==
    IF result_json.hasContent /\ result_json.content # <<>>
    THEN LET b == result_json.content[Len(result_json.content)]
         IN IF b.hasText THEN b.text ELSE <<>>
    ELSE NoResponseFromModel

\* generate_llm_answer, after invoke_model has returned result_json
generate_llm_answer(result_json) == FirstBlockText(result_json)

DocEntry(k, doc) == <<"Document ", ToString(k), ": ">> \o doc.text

HasText(doc) == doc.hasContent /\ doc.hasText

\* the list comprehension of retrieve_from_kb; i is the 0-based enumerate index
RECURSIVE DocsFrom(_, _)
DocsFrom(candidates, i) ==
    IF candidates = <<>> THEN <<>>
    ELSE (IF HasText(Head(candidates))
          THEN <<DocEntry(i + 1, Head(candidates))>>
          ELSE <<>>) \o DocsFrom(Tail(candidates), i + 1)

RenumberedDocs(candidates) ==
    LET kept == SelectSeq(candidates, HasText)
    IN [k \in 1..Len(kept) |-> DocEntry(k, kept[k])]

retrieve_from_kb_renumbered(candidates) == Join(<<"\n\n">>, RenumberedDocs(candidates))

\* retrieve_from_kb, after kb_client.retrieve has returned candidates
retrieve_from_kb(candidates) == Join(<<"\n\n">>, DocsFrom(candidates, 0))

\* newline.join([f"{msg['role']}: {msg['content']}" ...])
conversation_text(conversation_history) ==
    Join(<<"\n">>, [k \in 1..Len(conversation_history) |->
            <<conversation_history[k].role, ": ">> \o conversation_history[k].content])

ResponseInstructions == <<"\n\n### Response Instructions: ... \n\n### Response:\n">>

PromptWithoutContext(kb_context, history, user_query) ==
    <<"\n### Knowledge Base:\n">>
    \o <<"\n\n### Conversation History:\n">> \o conversation_text(history)
    \o <<"\n\n### User Query:\n">> \o user_query
    \o ResponseInstructions

\* the f-string of generate_rag_answer
BuildPrompt(kb_context, history, user_query) ==
    <<"\n### Knowledge Base:\n">> \o kb_context
    \o <<"\n\n### Conversation History:\n">> \o conversation_text(history)
    \o <<"\n\n### User Query:\n">> \o user_query
    \o ResponseInstructions

\* request.messages[:-1] as a list of dicts
HistoryOf(messages) ==
    [k \in 1..(Len(messages) - 1) |-> Msg(messages[k].role, messages[k].content)]

\* request.messages[-1].content
LastContent(messages) == messages[Len(messages)].content

\* ------------------------------------------------------------------------
\* State
\* ------------------------------------------------------------------------
VARIABLES
    \* frontend: st.session_state and the position of the script run
    messages,              \* st.session_state.messages
    use_streaming,         \* st.session_state.use_streaming
    fpc,                   \* "idle", "post", "query" (in send_query), "stream" (in stream_query)
    full_response,         \* full_response of the streaming branch
    nread,                 \* tokens of the streamed body consumed by iter_content
    \* the wire
    inflight,              \* HTTP requests posted and not yet accepted (at most one)
    \* backend: one request being handled
    request,               \* the ChatRequest; endpoint "none" when no request is handled
    bpc,                   \* "idle", "generator", "retrieve", "invoke", "streaming", "done"
    conversation_history,
    user_message,
    calls,                 \* calls made to the external services for this request
    candidates,            \* retrievalResults of the retrieve call
    kb_context,
    prompt,
    result_json,
    answer,
    words,                 \* words stream_generator has still to yield
    chunks,                \* chunks yielded so far
    response               \* the HTTP response as far as it has been produced

fvars == <<messages, use_streaming, fpc, full_response, nread>>
bvars == <<request, bpc, conversation_history, user_message, calls, candidates,
           kb_context, prompt, result_json, answer, words, chunks, response>>
vars == <<messages, use_streaming, fpc, full_response, nread, inflight,
          request, bpc, conversation_history, user_message, calls, candidates,
          kb_context, prompt, result_json, answer, words, chunks, response>>

NoRequest == [endpoint |-> "none", messages |-> <<>>, client |-> "none"]
NoModelResponse == [hasContent |-> FALSE, content |-> <<>>]
NoHttpResponse == [status |-> "none", key |-> "", value |-> <<>>]
JsonResponse(k, v) == [status |-> "200 json", key |-> k, value |-> v]

Call(svc, arg) == [svc |-> svc, arg |-> arg, outcome |-> "pending"]
\* the pending (last) call gets its outcome
Outcome(cs, o) == [cs EXCEPT ![Len(cs)].outcome = o]

BackendIdle ==
    /\ request = NoRequest
    /\ bpc = "idle"
    /\ conversation_history = <<>>
    /\ user_message = <<>>
    /\ calls = <<>>
    /\ candidates = <<>>
    /\ kb_context = <<>>
    /\ prompt = <<>>
    /\ result_json = NoModelResponse
    /\ answer = <<>>
    /\ words = <<>>
    /\ chunks = <<>>
    /\ response = NoHttpResponse

Init ==
    /\ messages = <<>>
    /\ use_streaming = TRUE
    /\ fpc = "idle"
    /\ full_response = <<>>
    /\ nread = 0
    /\ inflight = <<>>
    /\ BackendIdle

\* ------------------------------------------------------------------------
\* Backend: the two endpoints and the steps of generate_rag_answer.  The
\* handler blocks at each call of an external service, so it is cut there.
\* ------------------------------------------------------------------------
\* POST /rag/query is accepted.  Everything is inside try/except: an empty
\* message list raises IndexError, reported under "error".
rag_query_endpoint ==
    /\ bpc = "idle"
    /\ inflight # <<>>
    /\ Head(inflight).endpoint = "query"
    /\ request' = Head(inflight)
    /\ inflight' = Tail(inflight)
    /\ IF Head(inflight).messages = <<>>
       THEN /\ response' = JsonResponse("error", IndexErrorText)
            /\ bpc' = "done"
            /\ UNCHANGED <<conversation_history, user_message, calls>>
       ELSE /\ conversation_history' = HistoryOf(Head(inflight).messages)
            /\ user_message' = LastContent(Head(inflight).messages)
            \* generate_rag_answer -> retrieve_from_kb -> kb_client.retrieve
            /\ calls' = <<Call("retrieve", LastContent(Head(inflight).messages))>>
            /\ bpc' = "retrieve"
            /\ UNCHANGED response
    /\ UNCHANGED <<candidates, kb_context, prompt, result_json, answer, words, chunks>>
    /\ UNCHANGED fvars

\* POST /rag/stream is accepted.  No try/except: an empty message list is an
\* unhandled IndexError (500).  Otherwise the StreamingResponse is returned
\* with the generator not yet started.
rag_stream_endpoint ==
    /\ bpc = "idle"
    /\ inflight # <<>>
    /\ Head(inflight).endpoint = "stream"
    /\ request' = Head(inflight)
    /\ inflight' = Tail(inflight)
    /\ IF Head(inflight).messages = <<>>
       THEN /\ response' = [status |-> "500", key |-> "", value |-> <<>>]
            /\ bpc' = "done"
            /\ UNCHANGED <<conversation_history, user_message>>
       ELSE /\ conversation_history' = HistoryOf(Head(inflight).messages)
            /\ user_message' = LastContent(Head(inflight).messages)
            /\ response' = [status |-> "200 stream", key |-> "", value |-> <<>>]
            /\ bpc' = "generator"
    /\ UNCHANGED <<calls, candidates, kb_context, prompt, result_json, answer, words, chunks>>
    /\ UNCHANGED fvars

EagerGeneratorStart ==
    \* a generator that yields a chunk before the answer is computed
    /\ bpc = "generator"
    /\ chunks' = <<user_message \o <<" ">>>>
    /\ calls' = <<Call("retrieve", user_message)>>
    /\ bpc' = "retrieve"
    /\ UNCHANGED <<request, conversation_history, user_message, candidates, kb_context,
                   prompt, result_json, answer, words, response>>
    /\ UNCHANGED <<fvars, inflight>>

\* stream_generator is started by the response: it calls generate_rag_answer,
\* which calls retrieve_from_kb.
stream_generator_start ==
    /\ bpc = "generator"
    /\ calls' = <<Call("retrieve", user_message)>>
    /\ bpc' = "retrieve"
    /\ UNCHANGED <<request, conversation_history, user_message, candidates, kb_context,
                   prompt, result_json, answer, words, chunks, response>>
    /\ UNCHANGED <<fvars, inflight>>

\* An exception leaves the handler: /rag/query reports it under "error",
\* /rag/stream has already started the response and breaks it off.
Raised(text) ==
    /\ response' = IF request.endpoint = "query"
                   THEN JsonResponse("error", text)
                   ELSE [status |-> "aborted", key |-> "", value |-> <<>>]
    /\ bpc' = "done"

\* kb_client.retrieve returns cands: retrieve_from_kb formats the context,
\* generate_rag_answer builds the prompt and calls invoke_model.
retrieve_returns(cands) ==
    /\ bpc = "retrieve"
    /\ candidates' = cands
    /\ kb_context' = retrieve_from_kb(cands)
    /\ prompt' = BuildPrompt(retrieve_from_kb(cands), conversation_history, user_message)
    /\ calls' = Append(Outcome(calls, "returned"),
                       Call("invoke_model",
                            BuildPrompt(retrieve_from_kb(cands), conversation_history,
                                        user_message)))
    /\ bpc' = "invoke"
    /\ UNCHANGED <<request, conversation_history, user_message, result_json, answer,
                   words, chunks, response>>
    /\ UNCHANGED <<fvars, inflight>>

\* kb_client.retrieve raises
retrieve_raises ==
    /\ bpc = "retrieve"
    /\ calls' = Outcome(calls, "raised")
    /\ Raised(KbErrorText)
    /\ UNCHANGED <<request, conversation_history, user_message, candidates, kb_context,
                   prompt, result_json, answer, words, chunks>>
    /\ UNCHANGED <<fvars, inflight>>

\* invoke_model returns rj: generate_llm_answer unwraps the answer;
\* /rag/query returns it, stream_generator splits it.
invoke_returns(rj) ==
    /\ bpc = "invoke"
    /\ result_json' = rj
    /\ answer' = generate_llm_answer(rj)
    /\ calls' = Outcome(calls, "returned")
    /\ IF request.endpoint = "query"
       THEN /\ response' = JsonResponse("response", generate_llm_answer(rj))
            /\ bpc' = "done"
            /\ UNCHANGED words
       ELSE /\ words' = Split(generate_llm_answer(rj))
            /\ bpc' = "streaming"
            /\ UNCHANGED response
    /\ UNCHANGED <<request, conversation_history, user_message, candidates, kb_context,
                   prompt, chunks>>
    /\ UNCHANGED <<fvars, inflight>>

\* invoke_model raises (or its body does not decode)
invoke_raises ==
    /\ bpc = "invoke"
    /\ calls' = Outcome(calls, "raised")
    /\ Raised(LlmErrorText)
    /\ UNCHANGED <<request, conversation_history, user_message, candidates, kb_context,
                   prompt, result_json, answer, words, chunks>>
    /\ UNCHANGED <<fvars, inflight>>

\* one iteration of the loop of stream_generator: yield word + " "
stream_generator_yield ==
    /\ bpc = "streaming"
    /\ words # <<>>
    /\ chunks' = Append(chunks, Head(words) \o <<" ">>)
    /\ words' = Tail(words)
    /\ UNCHANGED <<request, bpc, conversation_history, user_message, calls, candidates,
                   kb_context, prompt, result_json, answer, response>>
    /\ UNCHANGED <<fvars, inflight>>

\* the loop of stream_generator is exhausted: the response body ends
stream_generator_stop ==
    /\ bpc = "streaming"
    /\ words = <<>>
    /\ response' = [status |-> "closed", key |-> "", value |-> <<>>]
    /\ bpc' = "done"
    /\ UNCHANGED <<request, conversation_history, user_message, calls, candidates,
                   kb_context, prompt, result_json, answer, words, chunks>>
    /\ UNCHANGED <<fvars, inflight>>

Backend ==
    \/ rag_query_endpoint
    \/ rag_stream_endpoint
    \/ stream_generator_start
    \/ \E cands \in CandidateLists : retrieve_returns(cands)
    \/ retrieve_raises
    \/ \E rj \in ModelResponses : invoke_returns(rj)
    \/ invoke_raises
    \/ stream_generator_yield
    \/ stream_generator_stop

\* the request is over: its locals are gone
BackendReset ==
    /\ request' = NoRequest
    /\ bpc' = "idle"
    /\ conversation_history' = <<>>
    /\ user_message' = <<>>
    /\ calls' = <<>>
    /\ candidates' = <<>>
    /\ kb_context' = <<>>
    /\ prompt' = <<>>
    /\ result_json' = NoModelResponse
    /\ answer' = <<>>
    /\ words' = <<>>
    /\ chunks' = <<>>
    /\ response' = NoHttpResponse

\* ------------------------------------------------------------------------
\* An arbitrary HTTP client of the backend: any well-formed ChatRequest
\* ------------------------------------------------------------------------
DirectContents == {<<"q">>, <<"r">>}
DirectMessages == {Msg(r, c) : r \in Roles, c \in DirectContents}

DirectPost(ep, msgs) ==
    /\ bpc = "idle"
    /\ inflight = <<>>
    /\ inflight' = <<[endpoint |-> ep, messages |-> msgs, client |-> "direct"]>>
    /\ UNCHANGED <<fvars, bvars>>

DirectReceive ==
    /\ bpc = "done"
    /\ request.client = "direct"
    /\ BackendReset
    /\ UNCHANGED <<fvars, inflight>>

NextBackend ==
    \/ \E ep \in {"query", "stream"}, msgs \in SeqUpTo(DirectMessages, MaxDirectLen) :
          DirectPost(ep, msgs)
    \/ DirectReceive
    \/ Backend

SpecBackend == Init /\ [][NextBackend]_vars

\* ------------------------------------------------------------------------
\* Frontend (src/frontend/app.py): one Streamlit session.  A script run is
\* cut where it blocks on the backend.
\* ------------------------------------------------------------------------
Prompts == {<<"q">>, <<"r">>}
ConnectionErrorText == <<"Connection error: ", "e">>

\* the answers of the services considered for a frontend session
SessionCandidateLists == { <<>>, <<TextDoc(<<"x">>), NoContentDoc, TextDoc(<<"x">>)>> }
SessionModelResponses ==
    { NoModelResponse,
      [hasContent |-> TRUE, content |-> <<NoTextBlock>>],
      [hasContent |-> TRUE, content |-> <<TextBlock(<<" ", "a", " ", "\n", "b", " ">>)>>] }

AllButLast(msgs) == SubSeq(msgs, 1, Len(msgs) - 1)

\* format_messages_for_api: the "messages" list of the payload
format_messages_for_api(msgs) ==
    [k \in 1..Len(msgs) |-> Msg(msgs[k].role, msgs[k].content)]

\* the body of a streamed response as produced so far
Body == Concat(chunks)

\* st.chat_input returns a prompt: the user message is appended to the history
chat_input(p) ==
    /\ fpc = "idle"
    /\ bpc = "idle"
    /\ inflight = <<>>
    /\ Len(messages) < 2 * MaxTurns
    /\ messages' = Append(messages, Msg("user", p))
    /\ full_response' = <<>>
    /\ nread' = 0
    /\ fpc' = "post"
    /\ UNCHANGED <<use_streaming, inflight, bvars>>

\* send_query / stream_query post the payload and it reaches the backend
post ==
    /\ fpc = "post"
    /\ inflight' = <<[endpoint |-> IF use_streaming THEN "stream" ELSE "query",
                      messages |-> format_messages_for_api(messages),
                      client |-> "frontend"]>>
    /\ fpc' = IF use_streaming THEN "stream" ELSE "query"
    /\ UNCHANGED <<messages, use_streaming, full_response, nread, bvars>>

\* requests.post raises a RequestException: both send_query and stream_query
\* turn it into the text "Connection error: ...", which becomes the response
post_fails ==
    /\ fpc = "post"
    /\ full_response' = ConnectionErrorText
    /\ messages' = Append(messages, Msg("assistant", ConnectionErrorText))
    /\ fpc' = "idle"
    /\ UNCHANGED <<use_streaming, nread, inflight, bvars>>

\* the text send_query returns for a JSON result
QueryText(result) ==
    IF result.key = "error" THEN <<"Error: ">> \o result.value ELSE result.value

\* send_query returns; the assistant message is appended
send_query_returns ==
    /\ fpc = "query"
    /\ bpc = "done"
    /\ request.client = "frontend"
    /\ full_response' = QueryText(response)
    /\ messages' = Append(messages, Msg("assistant", QueryText(response)))
    /\ fpc' = "idle"
    /\ BackendReset
    /\ UNCHANGED <<use_streaming, nread, inflight>>

\* one iteration of the loop over stream_query: iter_content hands over the
\* next piece of the body, full_response += chunk
stream_query_chunk ==
    /\ fpc = "stream"
    /\ request.client = "frontend"
    /\ nread < Len(Body)
    /\ full_response' = Append(full_response, Body[nread + 1])
    /\ nread' = nread + 1
    /\ UNCHANGED <<messages, use_streaming, fpc, inflight, bvars>>

\* the body ended: the loop is over and the assistant message is appended
stream_query_ends ==
    /\ fpc = "stream"
    /\ bpc = "done"
    /\ request.client = "frontend"
    /\ response.status = "closed"
    /\ nread = Len(Body)
    /\ messages' = Append(messages, Msg("assistant", full_response))
    /\ fpc' = "idle"
    /\ BackendReset
    /\ UNCHANGED <<use_streaming, full_response, nread, inflight>>

\* the response is an error status or its body breaks off: stream_query
\* yields "Connection error: ..." as a last chunk
stream_query_breaks ==
    /\ fpc = "stream"
    /\ bpc = "done"
    /\ request.client = "frontend"
    /\ response.status \in {"aborted", "500"}
    /\ nread = Len(Body)
    /\ full_response' = full_response \o ConnectionErrorText
    /\ messages' = Append(messages, Msg("assistant", full_response \o ConnectionErrorText))
    /\ fpc' = "idle"
    /\ BackendReset
    /\ UNCHANGED <<use_streaming, nread, inflight>>

\* the "Enable Streaming" toggle
toggle ==
    /\ fpc = "idle"
    /\ use_streaming' = ~use_streaming
    /\ UNCHANGED <<messages, fpc, full_response, nread, inflight, bvars>>

\* the "Clear Chat History" button
clear_chat ==
    /\ fpc = "idle"
    /\ messages' = <<>>
    /\ UNCHANGED <<use_streaming, fpc, full_response, nread, inflight, bvars>>

Next ==
    \/ \E p \in Prompts : chat_input(p)
    \/ post
    \/ post_fails
    \/ send_query_returns
    \/ stream_query_chunk
    \/ stream_query_ends
    \/ stream_query_breaks
    \/ toggle
    \/ clear_chat
    \/ rag_query_endpoint
    \/ rag_stream_endpoint
    \/ stream_generator_start
    \/ \E cands \in SessionCandidateLists : retrieve_returns(cands)
    \/ retrieve_raises
    \/ \E rj \in SessionModelResponses : invoke_returns(rj)
    \/ invoke_raises
    \/ stream_generator_yield
    \/ stream_generator_stop

Spec == Init /\ [][Next]_vars

\* ------------------------------------------------------------------------
\* stream_generator alone: the model has just returned an arbitrary answer
\* to a /rag/stream request
\* ------------------------------------------------------------------------
Alphabet == {"a", "b", " ", "\n"}
Answers == SeqUpTo(Alphabet, MaxLen)

InitStream ==
    /\ messages = <<>>
    /\ use_streaming = TRUE
    /\ fpc = "idle"
    /\ full_response = <<>>
    /\ nread = 0
    /\ inflight = <<>>
    /\ request = [endpoint |-> "stream", messages |-> <<Msg("user", <<"q">>)>>,
                  client |-> "direct"]
    /\ bpc = "streaming"
    /\ conversation_history = <<>>
    /\ user_message = <<"q">>
    /\ candidates = <<>>
    /\ kb_context = <<>>
    /\ prompt = BuildPrompt(<<>>, <<>>, <<"q">>)
    /\ calls = <<[svc |-> "retrieve", arg |-> <<"q">>, outcome |-> "returned"],
                 [svc |-> "invoke_model", arg |-> BuildPrompt(<<>>, <<>>, <<"q">>),
                  outcome |-> "returned"]>>
    /\ \E a \in Answers :
          /\ result_json = [hasContent |-> TRUE, content |-> <<TextBlock(a)>>]
          /\ answer = generate_llm_answer([hasContent |-> TRUE, content |-> <<TextBlock(a)>>])
          /\ words = Split(a)
    /\ chunks = <<>>
    /\ response = [status |-> "200 stream", key |-> "", value |-> <<>>]

NextStream ==
    \/ stream_generator_yield
    \/ stream_generator_stop

SpecStream == InitStream /\ [][NextStream]_vars

\* ========================================================================
\* Properties
\* ========================================================================
Last(sq) == sq[Len(sq)]
IsPrefix(a, b) == Len(a) <= Len(b) /\ \A k \in 1..Len(a) : a[k] = b[k]

\* The whitespace-separated words of s, stated by position: a word starts
\* where a non-whitespace token follows whitespace or the start of s, and
\* runs to the last token before the next whitespace or the end of s.
WordStarts(s) ==
    {i \in 1..Len(s) : s[i] \notin Whitespace /\ (i = 1 \/ s[i - 1] \in Whitespace)}
WordEnd(s, i) ==
    CHOOSE j \in i..Len(s) :
        /\ \A k \in i..j : s[k] \notin Whitespace
        /\ (j = Len(s) \/ s[j + 1] \in Whitespace)
NthStart(s, n) ==
    CHOOSE i \in WordStarts(s) : Cardinality({j \in WordStarts(s) : j < i}) = n - 1
WordsOf(s) ==
    [n \in 1..Cardinality(WordStarts(s)) |-> SubSeq(s, NthStart(s, n), WordEnd(s, NthStart(s, n)))]
ChunksOf(s) == [n \in 1..Len(WordsOf(s)) |-> WordsOf(s)[n] \o <<" ">>]

\* The usable retrieval results, stated by position
UsableAt(cands) == {i \in 1..Len(cands) : cands[i].hasContent /\ cands[i].hasText}
NthUsable(cands, n) ==
    CHOOSE i \in UsableAt(cands) : Cardinality({j \in UsableAt(cands) : j < i}) = n - 1
ContextOf(cands) ==
    Join(<<"\n\n">>,
         [n \in 1..Cardinality(UsableAt(cands)) |->
            <<"Document ", ToString(NthUsable(cands, n)), ": ">>
            \o cands[NthUsable(cands, n)].text])

Handling == request.endpoint # "none"
RetrievalReturned == Len(calls) >= 1 /\ calls[1].outcome = "returned"
InvokeReturned == Len(calls) >= 2 /\ calls[2].outcome = "returned"
SomeCallRaised == \E k \in 1..Len(calls) : calls[k].outcome = "raised"

\* ------------------------------------------------------------------------
\* C1.  /rag/stream: a chunk exists only when the retrieve call and the
\* invoke_model call have both returned and the answer is fixed; the chunks
\* emitted and still to be emitted are those of that answer; a raised call
\* leaves zero chunks; and from the first chunk on, no call is made or
\* changed and the answer does not change.
\* ------------------------------------------------------------------------
C1_Computed ==
    (request.endpoint = "stream") =>
        /\ (chunks # <<>>) =>
              /\ Len(calls) = 2
              /\ calls[1].svc = "retrieve" /\ calls[1].outcome = "returned"
              /\ calls[2].svc = "invoke_model" /\ calls[2].outcome = "returned"
              /\ bpc \in {"streaming", "done"}
              /\ answer = generate_llm_answer(result_json)
        /\ (bpc = "streaming") =>
              chunks \o [k \in 1..Len(words) |-> words[k] \o <<" ">>] = ChunksOf(answer)
        /\ SomeCallRaised => (chunks = <<>> /\ bpc = "done" /\ response.status = "aborted")
        /\ (bpc \in {"generator", "retrieve", "invoke"}) => chunks = <<>>
C1_NoLaterCall ==
    (request.endpoint = "stream" /\ chunks # <<>> /\ chunks' # <<>>) =>
        (calls' = calls /\ answer' = answer /\ IsPrefix(chunks, chunks'))
C1_StreamAfterAnswer == [](C1_Computed) /\ [][C1_NoLaterCall]_vars
C1_Witness ==
    /\ request.endpoint = "stream"
    /\ bpc = "streaming"
    /\ Len(chunks) = 1
    /\ words # <<>>

\* ------------------------------------------------------------------------
\* C2.  A request with a non-empty message list makes its calls in a fixed
\* order: first one retrieve call whose query is the content of the last
\* message; a second call exists only once retrieval has returned, is the
\* invoke_model call and its prompt contains the retrieved context; there is
\* no third call; a finished request made exactly one retrieve call, and
\* exactly one invoke_model call if retrieval returned and none if it raised.
\* ------------------------------------------------------------------------
C2_CallOrder ==
    (Handling /\ request.messages # <<>>) =>
        /\ Len(calls) <= 2
        /\ (bpc \in {"retrieve", "invoke", "streaming", "done"}) => Len(calls) >= 1
        /\ (Len(calls) >= 1) =>
              /\ calls[1].svc = "retrieve"
              /\ calls[1].arg = Last(request.messages).content
        /\ (Len(calls) = 2) =>
              /\ calls[1].outcome = "returned"
              /\ calls[2].svc = "invoke_model"
              /\ Contains(calls[2].arg, ContextOf(candidates))
              /\ Contains(calls[2].arg, Last(request.messages).content)
        /\ (Len(calls) = 1) => calls[1].outcome \in {"pending", "raised"}
        /\ (bpc = "done") =>
              /\ \A k \in 1..Len(calls) : calls[k].outcome # "pending"
              /\ (calls[1].outcome = "raised") => Len(calls) = 1
              /\ (calls[1].outcome = "returned") => Len(calls) = 2
C2_Witness ==
    /\ request.endpoint = "query"
    /\ bpc = "done"
    /\ Len(request.messages) = 2
    /\ request.messages[1].content # request.messages[2].content
    /\ Len(calls) = 2
    /\ calls[2].outcome = "returned"
    /\ kb_context # <<>>

\* ------------------------------------------------------------------------
\* C3.  stream_generator emits one chunk per whitespace-separated word of
\* the answer, in order, each the word followed by one space, and then
\* stops: at every moment the chunks emitted are a prefix of that list, and
\* when the generator has stopped they are the whole list; their
\* concatenation is then the words joined by single spaces plus a trailing
\* space; an answer without words gives zero chunks.
\* ------------------------------------------------------------------------
C3_WordByWord ==
    (request.endpoint = "stream" /\ bpc \in {"streaming", "done"} /\ ~SomeCallRaised) =>
        /\ IsPrefix(chunks, ChunksOf(answer))
        /\ Len(chunks) + Len(words) = Len(ChunksOf(answer))
        /\ (bpc = "done") =>
              /\ chunks = ChunksOf(answer)
              /\ response.status = "closed"
              /\ (WordsOf(answer) # <<>>) =>
                    Concat(chunks) = Join(<<" ">>, WordsOf(answer)) \o <<" ">>
        /\ (\A k \in 1..Len(answer) : answer[k] \in Whitespace) => chunks = <<>>
C3_Witness ==
    /\ bpc = "done"
    /\ Len(chunks) = 2
    /\ Len(answer) = 4
    /\ answer[2] \in Whitespace
    /\ answer[3] \in Whitespace

\* ------------------------------------------------------------------------
\* C4.  (as claimed) For a request with n >= 1 messages the history is the
\* first n-1 messages, role and content unchanged, the query is the content
\* of the last message, and that last message is a user message.
\* ------------------------------------------------------------------------
C4_HistoryAndQuery ==
    (Handling /\ Len(request.messages) >= 1) =>
        /\ Len(conversation_history) = Len(request.messages) - 1
        /\ \A k \in 1..Len(conversation_history) :
              /\ conversation_history[k].role = request.messages[k].role
              /\ conversation_history[k].content = request.messages[k].content
        /\ user_message = Last(request.messages).content
        /\ Last(request.messages).role = "user"

\* ------------------------------------------------------------------------
\* C5.  A frontend turn: the user message is in the history before the
\* request is sent; the request carries the whole history, whose last
\* message is that user message; the turn ends by appending exactly one
\* assistant message that holds the complete response; the history changes
\* at no other moment of the turn.
\* ------------------------------------------------------------------------
\* the complete response of the turn, as the backend produced it
CompleteResponse ==
    IF fpc = "post" THEN ConnectionErrorText
    ELSE IF fpc = "query"
         THEN (IF response.key = "response" THEN answer ELSE <<"Error: ">> \o response.value)
         ELSE (IF response.status = "closed" THEN Concat(chunks)
               ELSE Concat(chunks) \o ConnectionErrorText)
ResponseComplete ==
    \/ fpc = "post"
    \/ fpc \in {"query", "stream"} /\ bpc = "done" /\ request.client = "frontend"
C5_InTurn ==
    /\ (fpc # "idle") => (messages # <<>> /\ Last(messages).role = "user")
    /\ (fpc = "idle") => (inflight = <<>> /\ ~Handling)
    /\ (inflight # <<>>) =>
          /\ fpc \in {"query", "stream"}
          /\ inflight[1].messages = messages
    /\ (Handling /\ request.client = "frontend") =>
          /\ fpc \in {"query", "stream"}
          /\ request.messages = messages
C5_Step ==
    /\ (messages' # messages) =>
          \/ fpc = "idle" /\ fpc' = "idle" /\ messages' = <<>>
          \/ /\ fpc = "idle" /\ fpc' = "post"
             /\ \E p \in Prompts : messages' = Append(messages, Msg("user", p))
             /\ inflight' = <<>> /\ request' = NoRequest
          \/ /\ fpc # "idle" /\ fpc' = "idle"
             /\ ResponseComplete
             /\ messages' = Append(messages, Msg("assistant", CompleteResponse))
    /\ (fpc # "idle" /\ fpc' = "idle") => Len(messages') = Len(messages) + 1
    /\ (fpc = "idle" /\ fpc' # "idle") => Len(messages') = Len(messages) + 1
C5_Turn == [](C5_InTurn) /\ [][C5_Step]_vars
C5_Witness ==
    /\ fpc = "stream"
    /\ bpc = "done"
    /\ response.status = "closed"
    /\ Len(request.messages) = 3
    /\ request.messages[1].content # request.messages[3].content
    /\ nread = Len(Body)
    /\ Len(chunks) = 2

\* ------------------------------------------------------------------------
\* C6.  Once retrieval has returned, the context is one entry per result
\* that has content text, in retrieval order, separated by a blank line,
\* each labelled "Document k" with k the 1-based position in the raw result
\* list; without a usable result it is the empty string; in either case the
\* invoke_model call has been made.
\* ------------------------------------------------------------------------
C6_Context ==
    RetrievalReturned =>
        /\ kb_context = ContextOf(candidates)
        /\ (UsableAt(candidates) = {}) => kb_context = <<>>
        /\ Len(calls) = 2
        /\ calls[2].svc = "invoke_model"
C6_Witness ==
    /\ bpc = "invoke"
    /\ Len(candidates) = 3
    /\ UsableAt(candidates) = {2, 3}

\* ------------------------------------------------------------------------
\* C7.  Once invoke_model has returned, the answer is the text of the first
\* content block when the content list is non-empty ("" when that block has
\* no text), and "No response from model." when content is missing or
\* empty; a finished /rag/query reports the answer under "response", and a
\* finished /rag/stream has streamed the placeholder as four chunks.
\* ------------------------------------------------------------------------
C7_Unwrap ==
    InvokeReturned =>
        /\ (result_json.hasContent /\ Len(result_json.content) >= 1) =>
              answer = (IF result_json.content[1].hasText
                        THEN result_json.content[1].text ELSE <<>>)
        /\ (~result_json.hasContent \/ result_json.content = <<>>) =>
              /\ answer = <<"No", " ", "response", " ", "from", " ", "model.">>
              /\ (request.endpoint = "stream" /\ bpc = "done") =>
                    chunks = << <<"No", " ">>, <<"response", " ">>,
                                <<"from", " ">>, <<"model.", " ">> >>
        /\ (request.endpoint = "query") =>
              (bpc = "done" /\ response = [status |-> "200 json", key |-> "response",
                                           value |-> answer])
C7_Witness ==
    /\ request.endpoint = "stream"
    /\ bpc = "done"
    /\ InvokeReturned
    /\ result_json.hasContent
    /\ result_json.content = <<>>
    /\ Len(chunks) = 4

====
